---- MODULE Spec2Model ----
(***************************************************************************)
(* Payment intake pipeline of Hoffmano/rinha-go.                           *)
(*                                                                         *)
(* The repository holds three main packages, each a complete program:      *)
(*   "api"  src/api/main.go      Postgres store, default -> fallback ->     *)
(*                               requeue dispatch, 10 workers               *)
(*   "mem"  src/unnamed/part_001 in-memory map store under a RWMutex,       *)
(*                               non-blocking intake, purge endpoint        *)
(*   "v0"   src/unnamed/part_000 first draft: one worker, insert after the  *)
(*                               default send whatever its result           *)
(*                               (its unused response, err stop the Go      *)
(*                               compiler; it is modelled as written)       *)
(* The variable build says which of the three is running.                  *)
(***************************************************************************)
EXTENDS Integers, Sequences, FiniteSets, TLC

\* ---------------------------------------------------------------- bounds
MaxRequests == 2      \* intake requests made in one behaviour
QueueCap == 1         \* channel capacity (10000 / 100000 in the source)
NumWorkers == 2       \* worker goroutines (10 in the source)
MaxTime == 2          \* the clock runs over 0..MaxTime ticks
TicksPerSecond == 2   \* clock ticks in one second: a tick is half a second

Builds == {"api", "mem", "v0"}
\* The request bodies clients send: {correlationId, amount}. Sending the same
\* body twice is a duplicate submission of one correlation ID.
Bodies == {[correlationId |-> "a", amount |-> 10], [correlationId |-> "b", amount |-> 20]}
Cids == {b.correlationId : b \in Bodies}
Times == 0..MaxTime
NoTime == -1
\* The zero time.Time (year 1): a whole second before every clock value.
ZeroTime == 0 - TicksPerSecond
\* A from or to query parameter: a timestamp, or NoTime when it is omitted.
Params == Times \cup {NoTime}
Results == {"ok", "fail", "err"}   \* 200 OK, another status, transport error

NoPayment == [req |-> 0, cid |-> "", amount |-> 0, requestedAt |-> NoTime]
ZeroTotals == [totalRequests |-> 0, totalAmount |-> 0]
ZeroSummary == [default |-> ZeroTotals, fallback |-> ZeroTotals]
NoSummary == [default |-> [totalRequests |-> -1, totalAmount |-> -1],
              fallback |-> [totalRequests |-> -1, totalAmount |-> -1]]

VARIABLES
  build,       \* which main package runs
  now,         \* the wall clock, in ticks
  crashed,     \* the process died of an unrecovered panic
  queue,       \* the buffered channel paymentsQueue / paymentQueue
  blocked,     \* payments of intake handlers blocked on the channel send
  submits,     \* per intake request: its correlation ID and "none", "blocked"
               \* or the HTTP status sent
  workers,     \* per worker goroutine: its position and the payment it holds
  store,       \* the payments table / the processedPayments map, as rows
  accepted,    \* per processor: the requests it answered 200 OK
  inserted,    \* requests for which a store insert was executed
  dbErrors,    \* requests whose insert error was logged
  mu,          \* the RWMutex of the mem build
  purgeH,      \* the purge handler's position and its local count
  purgeLog,    \* the count last logged by the purge handler
  sumH,        \* the mem summary handler's position and locals
  summary      \* the last summary response body

vars == <<build, now, crashed, queue, blocked, submits, workers, store,
          accepted, inserted, dbErrors, mu, purgeH, purgeLog, sumH, summary>>

\* ------------------------------------------------------------- helpers
WorkerIds == IF build = "v0" THEN {1} ELSE 1..NumWorkers

RECURSIVE SumAmounts(_)
SumAmounts(rows) ==
  IF rows = {} THEN 0
  ELSE LET r == CHOOSE x \in rows : TRUE
       IN r.amount + SumAmounts(rows \ {r})

Totals(rows) == [totalRequests |-> Cardinality(rows), totalAmount |-> SumAmounts(rows)]

Keys(rows) == {r.cid : r \in rows}

QueuedReqs == {queue[i].req : i \in 1..Len(queue)}

NextReq == IF \E k \in 1..MaxRequests : submits[k].status = "none"
           THEN CHOOSE k \in 1..MaxRequests :
                  /\ submits[k].status = "none"
                  /\ \A j \in 1..(k-1) : submits[j].status # "none"
           ELSE 0

Answer(k, c, st) == [submits EXCEPT ![k] = [cid |-> c, status |-> st]]

\* time.Now().Format(time.RFC3339): the layout has no fractional seconds.
FormatRFC3339(t) == t - (t % TicksPerSecond)

\* t.Format(time.DateTime), "2006-01-02 15:04:05": seconds, no fraction.
FormatDateTime(t) == t - (t % TicksPerSecond)

Idle == [pc |-> "idle", p |-> NoPayment]

Init ==
  /\ build \in Builds
  /\ now = 0
  /\ crashed = FALSE
  /\ queue = <<>>
  /\ blocked = {}
  /\ submits = [k \in 1..MaxRequests |-> [cid |-> "", status |-> "none"]]
  /\ workers = [w \in WorkerIds |-> Idle]
  /\ store = {}
  /\ accepted = [default |-> {}, fallback |-> {}]
  /\ inserted = {}
  /\ dbErrors = {}
  /\ mu = [writer |-> FALSE, readers |-> 0]
  /\ purgeH = [pc |-> "idle", count |-> 0]
  /\ purgeLog = -1
  /\ sumH = [pc |-> "idle", from |-> 0, to |-> 0, visited |-> {}, acc |-> ZeroTotals]
  /\ summary = NoSummary

Tick ==
  /\ ~crashed
  /\ now < MaxTime
  /\ now' = now + 1
  /\ UNCHANGED <<build, crashed, queue, blocked, submits, workers, store, accepted,
                 inserted, dbErrors, mu, purgeH, purgeLog, sumH, summary>>

\* ------------------------------------------------- build "api": main.go

\* Mutant: a table without the primary key takes every row.
SqlInsertNoPrimaryKey(rows, row) == rows \cup {row}

\* insert into payments ... : correlation_id is the primary key, so a row
\* whose key is present is refused with an error and the table is unchanged.
SqlInsert(rows, row) == IF row.cid \in Keys(rows) THEN rows ELSE rows \cup {row}

\* paymentsQueue <- payment in an HTTP handler: the handler blocks while the
\* channel is full; net/http answers 200 when the handler returns.
postPayment(body) ==
  /\ build = "api" /\ ~crashed
  /\ NextReq # 0
  /\ LET k == NextReq
         p == [req |-> k, cid |-> body.correlationId, amount |-> body.amount,
               requestedAt |-> NoTime]
     IN IF Len(queue) < QueueCap
        THEN /\ queue' = Append(queue, p)
             /\ submits' = Answer(k, p.cid, "200")
             /\ blocked' = blocked
        ELSE /\ blocked' = blocked \cup {p}
             /\ submits' = Answer(k, p.cid, "blocked")
             /\ queue' = queue
  /\ UNCHANGED <<build, now, crashed, workers, store, accepted, inserted, dbErrors,
                 mu, purgeH, purgeLog, sumH, summary>>

\* A blocked handler's send completes once the channel has room.
postPaymentResume(p) ==
  /\ build = "api" /\ ~crashed
  /\ p \in blocked
  /\ Len(queue) < QueueCap
  /\ queue' = Append(queue, p)
  /\ blocked' = blocked \ {p}
  /\ submits' = Answer(p.req, p.cid, "200")
  /\ UNCHANGED <<build, now, crashed, workers, store, accepted, inserted, dbErrors,
                 mu, purgeH, purgeLog, sumH, summary>>

\* An unrecovered nil-pointer panic in a goroutine ends the process: the
\* channel, the goroutines and the blocked handlers are gone; the database
\* is another process and keeps its rows.
Panic ==
  /\ crashed' = TRUE
  /\ queue' = <<>>
  /\ blocked' = {}
  /\ workers' = [w \in DOMAIN workers |-> [pc |-> "dead", p |-> NoPayment]]

\* Mutant: the worker reads the head of the queue and leaves it there.
paymentWorkerDequeuePeek(w) ==
  /\ build = "api" /\ ~crashed
  /\ workers[w].pc = "idle"
  /\ Len(queue) > 0
  /\ queue' = queue
  /\ workers' = [workers EXCEPT ![w] =
        [pc |-> "default",
         p |-> [Head(queue) EXCEPT !.requestedAt = FormatRFC3339(now)]]]
  /\ UNCHANGED <<build, now, crashed, blocked, submits, store, accepted, inserted,
                 dbErrors, mu, purgeH, purgeLog, sumH, summary>>

\* for payment := range paymentsQueue; payment.RequestedAt = time.Now()...
paymentWorkerDequeue(w) ==
  /\ build = "api" /\ ~crashed
  /\ workers[w].pc = "idle"
  /\ Len(queue) > 0
  /\ queue' = Tail(queue)
  /\ workers' = [workers EXCEPT ![w] =
        [pc |-> "default",
         p |-> [Head(queue) EXCEPT !.requestedAt = FormatRFC3339(now)]]]
  /\ UNCHANGED <<build, now, crashed, blocked, submits, store, accepted, inserted,
                 dbErrors, mu, purgeH, purgeLog, sumH, summary>>

\* res, _ := http.Post(default); if res.StatusCode != http.StatusOK {...
\* With a transport error res is nil and res.StatusCode panics.
paymentWorkerDefault(w, r) ==
  /\ build = "api" /\ ~crashed
  /\ workers[w].pc = "default"
  /\ CASE r = "ok" ->
            /\ workers' = [workers EXCEPT ![w].pc = "insertDefault"]
            /\ accepted' = [accepted EXCEPT !.default = @ \cup {workers[w].p.req}]
            /\ UNCHANGED <<crashed, queue, blocked>>
       [] r = "fail" ->
            /\ workers' = [workers EXCEPT ![w].pc = "fallback"]
            /\ UNCHANGED <<crashed, queue, blocked, accepted>>
       [] OTHER ->
            /\ Panic
            /\ UNCHANGED accepted
  /\ UNCHANGED <<build, now, submits, store, inserted, dbErrors, mu, purgeH,
                 purgeLog, sumH, summary>>

paymentWorkerFallback(w, r) ==
  /\ build = "api" /\ ~crashed
  /\ workers[w].pc = "fallback"
  /\ CASE r = "ok" ->
            /\ workers' = [workers EXCEPT ![w].pc = "insertFallback"]
            /\ accepted' = [accepted EXCEPT !.fallback = @ \cup {workers[w].p.req}]
            /\ UNCHANGED <<crashed, queue, blocked>>
       [] r = "fail" ->
            /\ workers' = [workers EXCEPT ![w].pc = "requeue"]
            /\ UNCHANGED <<crashed, queue, blocked, accepted>>
       [] OTHER ->
            /\ Panic
            /\ UNCHANGED accepted
  /\ UNCHANGED <<build, now, submits, store, inserted, dbErrors, mu, purgeH,
                 purgeLog, sumH, summary>>

\* paymentsQueue <- payment; return : a blocking send, then the worker ends.
paymentWorkerRequeue(w) ==
  /\ build = "api" /\ ~crashed
  /\ workers[w].pc = "requeue"
  /\ Len(queue) < QueueCap
  /\ queue' = Append(queue, workers[w].p)
  /\ workers' = [workers EXCEPT ![w] = [pc |-> "exited", p |-> NoPayment]]
  /\ UNCHANGED <<build, now, crashed, blocked, submits, store, accepted, inserted,
                 dbErrors, mu, purgeH, purgeLog, sumH, summary>>

\* Mutant: both insert statements write false.
ProcessorColumnAlwaysFalse(pc) == "false"

\* The processor column of the two insert statements: the literal true on
\* the fallback path, false on the default path.
ProcessorColumn(pc) == IF pc = "insertFallback" THEN "true" ELSE "false"

\* db.NamedExec("insert into payments ... true|false ..."); the error is
\* logged. After the fallback insert the worker returns; after the default
\* insert it loops.
paymentWorkerInsert(w) ==
  /\ build = "api" /\ ~crashed
  /\ workers[w].pc \in {"insertDefault", "insertFallback"}
  /\ LET p == workers[w].p
         row == [cid |-> p.cid, amount |-> p.amount,
                 processor |-> ProcessorColumn(workers[w].pc),
                 requestedAt |-> p.requestedAt]
     IN /\ store' = SqlInsert(store, row)
        /\ inserted' = inserted \cup {p.req}
        /\ dbErrors' = IF p.cid \in Keys(store) THEN dbErrors \cup {p.req} ELSE dbErrors
  /\ workers' = [workers EXCEPT ![w] =
        [pc |-> IF workers[w].pc = "insertFallback" THEN "exited" ELSE "idle",
         p |-> NoPayment]]
  /\ UNCHANGED <<build, now, crashed, queue, blocked, submits, accepted, mu, purgeH,
                 purgeLog, sumH, summary>>

\* select processor, count(*), coalesce(sum(amount),0) from payments where
\* requested_at >= $1 and requested_at <= $2 group by processor; the rows
\* "false" and "true" fill Default and Fallback.
SqlSummary(rows, from, to) ==
  LET hit == {r \in rows : r.requestedAt >= from /\ r.requestedAt <= to}
  IN [default |-> Totals({r \in hit : r.processor = "false"}),
      fallback |-> Totals({r \in hit : r.processor = "true"})]

\* time.Parse(time.RFC3339Nano, ""): the error is dropped and the zero time
\* is used.
ParseOrZero(param) == IF param = NoTime THEN ZeroTime ELSE param

getPaymentsSummary(from, to) ==
  /\ build = "api" /\ ~crashed
  /\ summary' = SqlSummary(store, FormatDateTime(ParseOrZero(from)),
                           FormatDateTime(ParseOrZero(to)))
  /\ UNCHANGED <<build, now, crashed, queue, blocked, submits, workers, store,
                 accepted, inserted, dbErrors, mu, purgeH, purgeLog, sumH>>

NextApi ==
  \/ \E body \in Bodies : postPayment(body)
  \/ \E p \in blocked : postPaymentResume(p)
  \/ \E w \in DOMAIN workers : paymentWorkerDequeue(w)
  \/ \E w \in DOMAIN workers, r \in Results : paymentWorkerDefault(w, r)
  \/ \E w \in DOMAIN workers, r \in Results : paymentWorkerFallback(w, r)
  \/ \E w \in DOMAIN workers : paymentWorkerRequeue(w)
  \/ \E w \in DOMAIN workers : paymentWorkerInsert(w)
  \/ \E from \in Params, to \in Params : getPaymentsSummary(from, to)

\* ------------------------------------------------ build "v0": part_000

\* paymentsQueue <- payment : the same blocking send as in main.go.
postPaymentV0(body) ==
  /\ build = "v0" /\ ~crashed
  /\ NextReq # 0
  /\ LET k == NextReq
         p == [req |-> k, cid |-> body.correlationId, amount |-> body.amount,
               requestedAt |-> NoTime]
     IN IF Len(queue) < QueueCap
        THEN /\ queue' = Append(queue, p)
             /\ submits' = Answer(k, p.cid, "200")
             /\ blocked' = blocked
        ELSE /\ blocked' = blocked \cup {p}
             /\ submits' = Answer(k, p.cid, "blocked")
             /\ queue' = queue
  /\ UNCHANGED <<build, now, crashed, workers, store, accepted, inserted, dbErrors,
                 mu, purgeH, purgeLog, sumH, summary>>

\* A blocked handler's send completes once the channel has room.
postPaymentV0Resume(p) ==
  /\ build = "v0" /\ ~crashed
  /\ p \in blocked
  /\ Len(queue) < QueueCap
  /\ queue' = Append(queue, p)
  /\ blocked' = blocked \ {p}
  /\ submits' = Answer(p.req, p.cid, "200")
  /\ UNCHANGED <<build, now, crashed, workers, store, accepted, inserted, dbErrors,
                 mu, purgeH, purgeLog, sumH, summary>>

\* for payment := range paymentsQueue; paymentRequest.RequestedAt = time.Now():
\* the stamp goes into the outgoing JSON only.
paymentWorkerV0Dequeue(w) ==
  /\ build = "v0" /\ ~crashed
  /\ workers[w].pc = "idle"
  /\ Len(queue) > 0
  /\ queue' = Tail(queue)
  /\ workers' = [workers EXCEPT ![w] =
        [pc |-> "send", p |-> [Head(queue) EXCEPT !.requestedAt = now]]]
  /\ UNCHANGED <<build, now, crashed, blocked, submits, store, accepted, inserted,
                 dbErrors, mu, purgeH, purgeLog, sumH, summary>>

\* response, err := http.Post(default): neither is looked at.
paymentWorkerV0Send(w, r) ==
  /\ build = "v0" /\ ~crashed
  /\ workers[w].pc = "send"
  /\ workers' = [workers EXCEPT ![w].pc = "insert"]
  /\ accepted' = IF r = "ok"
                 THEN [accepted EXCEPT !.default = @ \cup {workers[w].p.req}]
                 ELSE accepted
  /\ UNCHANGED <<build, now, crashed, queue, blocked, submits, store, inserted,
                 dbErrors, mu, purgeH, purgeLog, sumH, summary>>

\* db.Exec("insert into payments (correlation_id, amount) values ($1, $2)"):
\* the table has no processor and no requested_at column; the error is dropped.
paymentWorkerV0Insert(w) ==
  /\ build = "v0" /\ ~crashed
  /\ workers[w].pc = "insert"
  /\ LET p == workers[w].p
         row == [cid |-> p.cid, amount |-> p.amount, processor |-> "none",
                 requestedAt |-> NoTime]
     IN /\ store' = SqlInsert(store, row)
        /\ inserted' = inserted \cup {p.req}
  /\ workers' = [workers EXCEPT ![w] = Idle]
  /\ UNCHANGED <<build, now, crashed, queue, blocked, submits, accepted, dbErrors,
                 mu, purgeH, purgeLog, sumH, summary>>

NextV0 ==
  \/ \E body \in Bodies : postPaymentV0(body)
  \/ \E p \in blocked : postPaymentV0Resume(p)
  \/ \E w \in DOMAIN workers : paymentWorkerV0Dequeue(w)
  \/ \E w \in DOMAIN workers, r \in Results : paymentWorkerV0Send(w, r)
  \/ \E w \in DOMAIN workers : paymentWorkerV0Insert(w)

\* ----------------------------------------------- build "mem": part_001

\* Mutant: a Lock that excludes nobody.
CanLockNoExclusion == TRUE

\* mu.Lock() returns when no goroutine holds mu for writing or for reading.
CanLock == ~mu.writer /\ mu.readers = 0

\* mu.RLock() returns when no goroutine holds mu for writing.
CanRLock == ~mu.writer

\* processedPayments[payment.CorrelationId] = payment
MapPut(rows, row) == {r \in rows : r.cid # row.cid} \cup {row}

\* Mutant: the payment is put in the queue whatever its length, and a full
\* queue is still answered with 503.
paymentHandlerEnqueuesAnyway(body) ==
  /\ build = "mem"
  /\ NextReq # 0
  /\ LET k == NextReq
         p == [req |-> k, cid |-> body.correlationId, amount |-> body.amount,
               requestedAt |-> now]
     IN /\ queue' = Append(queue, p)
        /\ submits' = Answer(k, p.cid, IF Len(queue) < QueueCap THEN "202" ELSE "503")
  /\ UNCHANGED <<build, now, crashed, blocked, workers, store, accepted, inserted,
                 dbErrors, mu, purgeH, purgeLog, sumH, summary>>

\* p.RequestedAt = time.Now(); select { case paymentQueue <- p: 202
\* default: 503 }
paymentHandler(body) ==
  /\ build = "mem"
  /\ NextReq # 0
  /\ LET k == NextReq
         p == [req |-> k, cid |-> body.correlationId, amount |-> body.amount,
               requestedAt |-> now]
     IN IF Len(queue) < QueueCap
        THEN /\ queue' = Append(queue, p)
             /\ submits' = Answer(k, p.cid, "202")
        ELSE /\ queue' = queue
             /\ submits' = Answer(k, p.cid, "503")
  /\ UNCHANGED <<build, now, crashed, blocked, workers, store, accepted, inserted,
                 dbErrors, mu, purgeH, purgeLog, sumH, summary>>

\* for payment := range queue
workerDequeue(w) ==
  /\ build = "mem"
  /\ workers[w].pc = "idle"
  /\ Len(queue) > 0
  /\ queue' = Tail(queue)
  /\ workers' = [workers EXCEPT ![w] = [pc |-> "send", p |-> Head(queue)]]
  /\ UNCHANGED <<build, now, crashed, blocked, submits, store, accepted, inserted,
                 dbErrors, mu, purgeH, purgeLog, sumH, summary>>

\* resp, err := client.Do(req): on an error or a status other than 200 the
\* worker logs and continues with the next payment.
workerSend(w, r) ==
  /\ build = "mem"
  /\ workers[w].pc = "send"
  /\ IF r = "ok"
     THEN /\ workers' = [workers EXCEPT ![w].pc = "insert"]
          /\ accepted' = [accepted EXCEPT !.default = @ \cup {workers[w].p.req}]
     ELSE /\ workers' = [workers EXCEPT ![w] = Idle]
          /\ accepted' = accepted
  /\ UNCHANGED <<build, now, crashed, queue, blocked, submits, store, inserted,
                 dbErrors, mu, purgeH, purgeLog, sumH, summary>>

\* mu.Lock(); processedPayments[id] = payment; mu.Unlock()
workerInsert(w) ==
  /\ build = "mem"
  /\ workers[w].pc = "insert"
  /\ CanLock
  /\ LET p == workers[w].p
         row == [cid |-> p.cid, amount |-> p.amount, processor |-> "none",
                 requestedAt |-> p.requestedAt]
     IN /\ store' = MapPut(store, row)
        /\ inserted' = inserted \cup {p.req}
  /\ workers' = [workers EXCEPT ![w] = Idle]
  /\ UNCHANGED <<build, now, crashed, queue, blocked, submits, accepted, dbErrors,
                 mu, purgeH, purgeLog, sumH, summary>>

\* Mutant: the purge also empties the queue.
purgePaymentsHandlerBeginDrainsQueue ==
  /\ build = "mem"
  /\ purgeH.pc = "idle"
  /\ CanLock
  /\ mu' = [mu EXCEPT !.writer = TRUE]
  /\ purgeH' = [pc |-> "counted", count |-> Cardinality(store)]
  /\ queue' = <<>>
  /\ UNCHANGED <<build, now, crashed, blocked, submits, workers, store,
                 accepted, inserted, dbErrors, purgeLog, sumH, summary>>

\* mu.Lock(); defer mu.Unlock(); count := len(processedPayments)
purgePaymentsHandlerBegin ==
  /\ build = "mem"
  /\ purgeH.pc = "idle"
  /\ CanLock
  /\ mu' = [mu EXCEPT !.writer = TRUE]
  /\ purgeH' = [pc |-> "counted", count |-> Cardinality(store)]
  /\ UNCHANGED <<build, now, crashed, queue, blocked, submits, workers, store,
                 accepted, inserted, dbErrors, purgeLog, sumH, summary>>

\* Mutant: the map is not reinitialised.
purgePaymentsHandlerEndKeepsMap ==
  /\ build = "mem"
  /\ purgeH.pc = "counted"
  /\ store' = store
  /\ purgeLog' = purgeH.count
  /\ mu' = [mu EXCEPT !.writer = FALSE]
  /\ purgeH' = [pc |-> "idle", count |-> 0]
  /\ UNCHANGED <<build, now, crashed, queue, blocked, submits, workers, accepted,
                 inserted, dbErrors, sumH, summary>>

\* processedPayments = make(map[string]Payment); log.Printf("PURGE: %d ...",
\* count); the deferred Unlock runs at the return.
purgePaymentsHandlerEnd ==
  /\ build = "mem"
  /\ purgeH.pc = "counted"
  /\ store' = {}
  /\ purgeLog' = purgeH.count
  /\ mu' = [mu EXCEPT !.writer = FALSE]
  /\ purgeH' = [pc |-> "idle", count |-> 0]
  /\ UNCHANGED <<build, now, crashed, queue, blocked, submits, workers, accepted,
                 inserted, dbErrors, sumH, summary>>

\* isAfterFrom && isBeforeTo, on time.Time values
InWindow(row, from, to) == row.requestedAt >= from /\ row.requestedAt <= to

\* from and to parsed (an omitted from is time.Time{}, an omitted to is
\* time.Now()); mu.RLock(); defer mu.RUnlock()
paymentsSummaryHandlerBegin(from, to) ==
  /\ build = "mem"
  /\ sumH.pc = "idle"
  /\ CanRLock
  /\ mu' = [mu EXCEPT !.readers = @ + 1]
  /\ sumH' = [pc |-> "scan",
              from |-> IF from = NoTime THEN ZeroTime ELSE from,
              to |-> IF to = NoTime THEN now ELSE to,
              visited |-> {}, acc |-> ZeroTotals]
  /\ UNCHANGED <<build, now, crashed, queue, blocked, submits, workers, store,
                 accepted, inserted, dbErrors, purgeH, purgeLog, summary>>

\* One iteration of: for _, p := range processedPayments { ... }. Every entry
\* is added to defaultSummary; fallbackSummary is never touched.
paymentsSummaryHandlerScan(row) ==
  /\ build = "mem"
  /\ sumH.pc = "scan"
  /\ row \in store
  /\ row.cid \notin sumH.visited
  /\ sumH' = [sumH EXCEPT
        !.visited = @ \cup {row.cid},
        !.acc = IF InWindow(row, sumH.from, sumH.to)
                THEN [totalRequests |-> @.totalRequests + 1,
                      totalAmount |-> @.totalAmount + row.amount]
                ELSE @]
  /\ UNCHANGED <<build, now, crashed, queue, blocked, submits, workers, store,
                 accepted, inserted, dbErrors, mu, purgeH, purgeLog, summary>>

\* The range is over; the response is encoded and the deferred RUnlock runs.
paymentsSummaryHandlerEnd ==
  /\ build = "mem"
  /\ sumH.pc = "scan"
  /\ Keys(store) \subseteq sumH.visited
  /\ summary' = [default |-> sumH.acc, fallback |-> ZeroTotals]
  /\ mu' = [mu EXCEPT !.readers = @ - 1]
  /\ sumH' = [pc |-> "idle", from |-> 0, to |-> 0, visited |-> {}, acc |-> ZeroTotals]
  /\ UNCHANGED <<build, now, crashed, queue, blocked, submits, workers, store,
                 accepted, inserted, dbErrors, purgeH, purgeLog>>

NextMem ==
  \/ \E body \in Bodies : paymentHandler(body)
  \/ \E w \in DOMAIN workers : workerDequeue(w)
  \/ \E w \in DOMAIN workers, r \in Results : workerSend(w, r)
  \/ \E w \in DOMAIN workers : workerInsert(w)
  \/ purgePaymentsHandlerBegin
  \/ purgePaymentsHandlerEnd
  \/ \E from \in Params, to \in Params : paymentsSummaryHandlerBegin(from, to)
  \/ \E row \in store : paymentsSummaryHandlerScan(row)
  \/ paymentsSummaryHandlerEnd

Next == Tick \/ NextApi \/ NextV0 \/ NextMem

Spec == Init /\ [][Next]_vars

\* The api build alone, with the goroutine scheduler's fairness: a worker
\* that can take a step (receive from a non-empty channel, get the answer of
\* an HTTP or database call, send into a channel with room) eventually does.
InitApi == Init /\ build = "api"

paymentWorkerStep(w) ==
  \/ paymentWorkerDequeue(w)
  \/ \E r \in Results : paymentWorkerDefault(w, r)
  \/ \E r \in Results : paymentWorkerFallback(w, r)
  \/ paymentWorkerRequeue(w)
  \/ paymentWorkerInsert(w)

FairSpecApi ==
  /\ InitApi
  /\ [][Tick \/ NextApi]_vars
  /\ \A w \in 1..NumWorkers : WF_vars(paymentWorkerStep(w))

\* ---------------------------------------------------------------- claims
Admitted == {k \in 1..MaxRequests : submits[k].status \in {"200", "202"}}
AcceptedReqs == accepted.default \cup accepted.fallback
RowsOf(c) == {r \in store : r.cid = c}

\* The processor tag an Outcome Entry carries: the boolean column of main.go
\* encodes it; the rows of part_000 and part_001 have no such field.
ProcessorTag(r) ==
  CASE r.processor = "false" -> "default"
    [] r.processor = "true" -> "fallback"
    [] OTHER -> "none"

\* C1: a submit never blocks the caller: made while the queue holds fewer
\* than capacity items it is answered with a success status and the payment
\* is appended to the queue; made while the queue is at capacity it is
\* answered 503 at once and the queue is unchanged. (The claim names 202 as
\* the success status; any 2xx is let through here, so that what refutes the
\* formula is the blocking alone.)
C1_SubmitNeverBlocks ==
  [][\A k \in 1..MaxRequests :
       (submits[k].status = "none" /\ submits'[k].status # "none") =>
          IF Len(queue) < QueueCap
          THEN /\ submits'[k].status \in {"200", "202"}
               /\ Len(queue') = Len(queue) + 1
               /\ queue'[Len(queue')].req = k
          ELSE /\ submits'[k].status = "503"
               /\ queue' = queue]_vars

\* C2: every admitted payment is in the queue, or held by exactly one worker,
\* or a store insert was executed for it (its Outcome Entry was recorded,
\* whatever a later purge did).
C2_NoSilentDrop ==
  \A k \in Admitted :
     \/ k \in QueuedReqs
     \/ Cardinality({w \in DOMAIN workers : workers[w].p.req = k}) = 1
     \/ k \in inserted

\* C3: once some processor has answered 200 OK to a payment's dispatch,
\* eventually exactly one Outcome Entry exists for its correlation ID.
C3_AcceptedLeadsToOneEntry ==
  \A k \in 1..MaxRequests :
     (k \in AcceptedReqs) ~> (Cardinality(RowsOf(submits[k].cid)) = 1)

\* C4: every Outcome Entry carries the tag default or fallback, and its
\* correlation ID is that of a payment some processor answered 200 OK.
C4_EntriesTaggedAndAccepted ==
  \A r \in store :
     /\ ProcessorTag(r) \in {"default", "fallback"}
     /\ \E k \in AcceptedReqs : submits[k].cid = r.cid

\* C9: no worker ever returns from its loop: whatever the outcome of a
\* payment, the worker is back at the dequeue. (A worker killed by the
\* process dying is not counted here; a returned worker alone refutes it.)
C9_NoWorkerReturns ==
  \A w \in DOMAIN workers : workers[w].pc # "exited"

\* C5: the store never holds two entries with one correlation ID; right after
\* an insert for a payment there is exactly one entry for its ID, however many
\* inserts for that ID came before; so a summary never counts more entries
\* than there are correlation IDs in the store.
C5_IdempotentInsert ==
  [][/\ \A c \in Cids : Cardinality({r \in store' : r.cid = c}) <= 1
     /\ \A k \in inserted' \ inserted :
           Cardinality({r \in store' : r.cid = submits[k].cid}) = 1
     /\ ((\E f \in Params, t \in Params : getPaymentsSummary(f, t))
            \/ paymentsSummaryHandlerEnd)
          => summary'.default.totalRequests + summary'.fallback.totalRequests
                <= Cardinality(Keys(store))]_vars

\* Two requests with one correlation ID were both inserted, and one entry is there.
C5_Witness ==
  \E j \in inserted, k \in inserted :
     /\ j # k
     /\ submits[j].cid = submits[k].cid
     /\ Cardinality(RowsOf(submits[k].cid)) = 1

\* The processor that handled the payment of an entry: fallback for a row
\* written on the fallback path, default for any other.
HandledBy(r) == IF r.processor = "true" THEN "fallback" ELSE "default"

\* The totals computed by hand over exactly the entries of the window.
ManualSummary(rows, from, to) ==
  LET hit == {r \in rows : from <= r.requestedAt /\ r.requestedAt <= to}
  IN [default |-> Totals({r \in hit : HandledBy(r) = "default"}),
      fallback |-> Totals({r \in hit : HandledBy(r) = "fallback"})]

\* C6: every summary response equals the totals computed over exactly the
\* entries with from <= requestedAt <= to.
C6_SummaryMatchesWindow ==
  [][/\ \A f \in Times, t \in Times :
           getPaymentsSummary(f, t) => summary' = ManualSummary(store, f, t)
     /\ paymentsSummaryHandlerEnd
           => summary' = ManualSummary(store, sumH.from, sumH.to)]_vars

Submitted == {k \in 1..MaxRequests : submits[k].status # "none"}
UniqueCid(k) == \A j \in Submitted \ {k} : submits[j].cid # submits[k].cid
CidsAcceptedBy(proc) == {submits[k].cid : k \in accepted[proc] \cap inserted}
WindowHoldsAll(rows, from, to) ==
  \A r \in rows : from <= r.requestedAt /\ r.requestedAt <= to

\* What C7 asks of a summary response over a window that holds every entry.
RoutedSummary(resp, rows, from, to) ==
  (WindowHoldsAll(rows, from, to) /\ \A k \in Submitted : UniqueCid(k)) =>
     /\ resp.default = Totals({r \in rows : r.cid \in CidsAcceptedBy("default")})
     /\ resp.fallback = Totals({r \in rows : r.cid \in CidsAcceptedBy("fallback")})

C8_PurgeClearsAndCounts ==
  [][/\ purgePaymentsHandlerEnd
           => /\ store' = {}
              /\ purgeLog' = Cardinality(store)
     /\ (paymentsSummaryHandlerEnd /\ store = {}) => summary' = ZeroSummary]_vars

\* A purge removed two entries and a summary made after it is all zero.
C8_Witness ==
  /\ build = "mem"
  /\ purgeLog = 2
  /\ store = {}
  /\ summary = ZeroSummary
  /\ inserted # {}

\* C10: while the purge holds the lock between its count and its clearing,
\* the count is the number of entries (no insert lands in between); while a
\* summary scans, what it has added up is the aggregation, over the entries
\* visited, of the store as it is (no entry came or went under it); a writer
\* and a reader never hold the lock together.
C10_PurgeAtomic ==
  /\ purgeH.pc = "counted" => purgeH.count = Cardinality(store)
  /\ sumH.pc = "scan" =>
        /\ sumH.visited \subseteq Keys(store)
        /\ sumH.acc = Totals({r \in store : /\ r.cid \in sumH.visited
                                            /\ InWindow(r, sumH.from, sumH.to)})
  /\ ~(mu.writer /\ mu.readers > 0)

\* A purge holds the lock over a non-empty store while a worker waits to insert.
C10_Witness ==
  /\ purgeH.pc = "counted"
  /\ purgeH.count > 0
  /\ \E w \in DOMAIN workers : workers[w].pc = "insert"

\* C11: an insert is executed for a payment only once some processor has
\* answered 200 OK to it; and a summary made after the write counts at least
\* the entries whose requestedAt lies in its window.
C11_WriteAfterSuccessThenVisible ==
  [][/\ \A k \in inserted' \ inserted : k \in AcceptedReqs
     /\ \A f \in Times, t \in Times :
           getPaymentsSummary(f, t) =>
              summary'.default.totalRequests + summary'.fallback.totalRequests
                 >= Cardinality({r \in store : f <= r.requestedAt /\ r.requestedAt <= t})
     /\ paymentsSummaryHandlerEnd =>
           summary'.default.totalRequests + summary'.fallback.totalRequests
              >= Cardinality({r \in store : /\ sumH.from <= r.requestedAt
                                            /\ r.requestedAt <= sumH.to})]_vars

\* C12: a summary query with from and to both omitted runs over the window
\* from the minimum time to the current time, and so counts every entry
\* written so far.
C12_OpenBounds ==
  [][/\ getPaymentsSummary(NoTime, NoTime) =>
           summary' = ManualSummary(store, ZeroTime, now)
     /\ paymentsSummaryHandlerBegin(NoTime, NoTime) =>
           /\ sumH'.from = ZeroTime
           /\ sumH'.to = now]_vars

\* C13: a payment is accepted by fallback only if default did not accept it;
\* while the process runs, a worker lets go of a payment only by executing
\* its insert or by putting it back in the queue, and the step that puts it
\* back writes no entry.
C13_DispatchProtocol ==
  [][/\ accepted'.default \cap accepted'.fallback = {}
     /\ \A w \in DOMAIN workers :
           LET k == workers[w].p.req
           IN (k # 0 /\ workers'[w].p.req # k /\ ~crashed') =>
                 \/ k \in inserted'
                 \/ (k \in {queue'[i].req : i \in 1..Len(queue')} /\ store' = store)]_vars

\* C14: the re-enqueue after a double failure never suspends the worker: no
\* worker stands at its requeue send while the queue is full.
C14_RequeueNeverSuspends ==
  \A w \in DOMAIN workers :
     ~(workers[w].pc = "requeue" /\ Len(queue) = QueueCap)

\* A send by worker w that ends in a transport error.
TransportErrorStep(w) ==
  \/ paymentWorkerDefault(w, "err")
  \/ paymentWorkerFallback(w, "err")
  \/ paymentWorkerV0Send(w, "err")
  \/ workerSend(w, "err")

\* C15: a transport error never ends the process and never discards the
\* payment: after it the worker still holds the payment (to try fallback or
\* to requeue it).
C15_TransportErrorHandled ==
  [][\A w \in DOMAIN workers :
        TransportErrorStep(w) =>
           /\ ~crashed'
           /\ workers'[w].p = workers[w].p]_vars

\* C16: an insert that fails (its correlation ID is in the table already) is
\* logged and leaves the worker at its dequeue.
C16_StoreFailureLoggedWorkerContinues ==
  [][\A k \in inserted' \ inserted :
        submits[k].cid \in Keys(store) /\ build # "mem" =>
           /\ k \in dbErrors'
           /\ \A w \in DOMAIN workers :
                 workers[w].p.req = k => workers'[w].pc = "idle"]_vars

\* The whole second a clock value lies in.
SecondOf(t) == t - (t % TicksPerSecond)

\* C17: the payment a worker has just dequeued carries a requestedAt of the
\* second of the dequeue, not an earlier one from the intake.
C17_StampedAtDequeue ==
  [][\A w \in DOMAIN workers :
        (workers[w].p.req = 0 /\ workers'[w].p.req # 0) =>
           SecondOf(workers'[w].p.requestedAt) >= SecondOf(now)]_vars

\* The number of places request k is in: queue positions and workers.
Holders(k) ==
  Cardinality({i \in 1..Len(queue) : queue[i].req = k})
     + Cardinality({w \in DOMAIN workers : workers[w].p.req = k})

\* C18: an admitted payment is in at most one place: never held by two
\* workers, never in the queue and held by a worker, never twice in the queue.
C18_ExclusiveOwnership ==
  \A k \in 1..MaxRequests : Holders(k) <= 1

\* One worker holds a payment while another payment waits in the queue and
\* the other worker is free to dequeue.
C18_Witness ==
  \E w, v \in DOMAIN workers :
     /\ w # v
     /\ workers[w].p.req # 0
     /\ workers[v].pc = "idle"
     /\ Len(queue) > 0

\* C19: the step that answers a submit with 503 leaves the queue, the
\* payments held by workers and the store as they were, and a request
\* answered 503 is never queued, held, accepted or inserted.
C19_RejectedChangesNothing ==
  [][\A k \in 1..MaxRequests :
        submits'[k].status = "503" =>
           /\ submits[k].status # "503" =>
                 /\ queue' = queue
                 /\ workers' = workers
                 /\ store' = store
           /\ Holders(k)' = 0
           /\ k \notin inserted'
           /\ k \notin accepted'.default \cup accepted'.fallback]_vars

\* A submit was answered 503 while the other payment went on to the store.
C19_Witness ==
  /\ build = "mem"
  /\ \E k \in 1..MaxRequests : submits[k].status = "503"
  /\ store # {}

\* C20: the two steps of the purge leave the queue and the payments held by
\* workers as they were, and an insert made by a worker puts the payment it
\* holds in the store whether or not a purge came before.
C20_PurgeTouchesOnlyStore ==
  [][/\ (purgePaymentsHandlerBegin \/ purgePaymentsHandlerEnd) =>
           /\ queue' = queue
           /\ workers' = workers
     /\ \A w \in DOMAIN workers :
           workerInsert(w) =>
              \E r \in store' : /\ r.cid = workers[w].p.cid
                                /\ r.amount = workers[w].p.amount]_vars

\* A purge holds the lock while a payment waits in the queue and a worker
\* holds an accepted payment it has not written yet.
C20_Witness ==
  /\ build = "mem"
  /\ purgeH.pc = "counted"
  /\ Len(queue) > 0
  /\ \E w \in DOMAIN workers : workers[w].pc = "insert"
====
